---------------------------- MODULE Spec2Model ----------------------------
(***************************************************************************)
(* Model of the ASP file monitor agent (src/agent/main.go): the event loop *)
(* of main, handleEvent, scheduleCommit, performCommit and                 *)
(* gitAddCommitPush, with a discrete clock for the two timers.             *)
(*                                                                         *)
(* Time is counted in seconds.  A time.Timer is a record with its deadline *)
(* ("when") and whether the runtime still holds it ("active"); its channel *)
(* C has a buffer of one, modelled by a boolean ("a value is waiting").    *)
(* The runtime delivers a timer's value when the clock reaches the         *)
(* deadline (action Tick).  The loop goroutine is at "select" when it      *)
(* waits in the select statement, and at "add", "status", "commit" or      *)
(* "push" while the corresponding git process of a flush is running.       *)
(***************************************************************************)
EXTENDS Integers, Sequences, FiniteSets, TLC

(* ------------------------------ bounds -------------------------------- *)
\* last instant of the clock
MaxTime == 5
\* capacity of the stream of events and errors delivered by the watcher and
\* not yet received by the loop
MaxQueue == 1
\* number of words of a text given to the validator
MaxWords == 4
\* number of times the commit message of one batch is composed
MaxFlushes == 2

(* --------------------------- configuration ---------------------------- *)
\* values of the -interval flag that are explored
IntervalChoices == {2}
\* values of the -max-wait flag that are explored (<= 0 disables max-wait)
MaxWaitChoices == {0, 3}
\* the same with a negative value
AnyMaxWaitChoices == MaxWaitChoices \cup {-1}

\* the watched paths; isDir is what os.Stat reports for the path
Paths ==
  { [base |-> "a", ext |-> ".asp", isDir |-> FALSE],
    [base |-> "b", ext |-> ".ASP", isDir |-> FALSE],
    [base |-> "n", ext |-> ".txt", isDir |-> FALSE],
    [base |-> "sub", ext |-> ".asp", isDir |-> TRUE] }

Path(b) == CHOOSE p \in Paths : p.base = b

\* The events that are explored.  fsnotify.Op is a bit mask, modelled by the
\* set of its bits.
Event ==
  { [name |-> Path("a"), op |-> {"Write"}],
    [name |-> Path("a"), op |-> {"Remove"}],
    [name |-> Path("b"), op |-> {"Create"}],
    [name |-> Path("b"), op |-> {"Rename"}],
    [name |-> Path("n"), op |-> {"Write"}],
    [name |-> Path("sub"), op |-> {"Create"}] }

Nil == [nil |-> TRUE]

VARIABLES
  interval,     \* flag -interval
  maxWait,      \* flag -max-wait
  now,          \* the clock
  events,       \* watcher.Events: events delivered and not yet received
  errC,         \* watcher.Errors: an error is delivered and not yet received
  sig,          \* the sig channel (buffer 1) holds a signal
  changed,      \* state.changed
  commitTimer,  \* commitTimer: [active, when]
  commitC,      \* commitTimer.C holds a value
  maxTimer,     \* maxTimer and maxTimerCh: Nil or [active, when, c]
  pc,           \* position of the loop goroutine
  files,        \* performCommit's files (the batch being flushed)
  reason,       \* performCommit's reason
  calls,        \* the git processes run by the flush of the loop's latest
                \* step, each with what it reported: [cmd, out]
  result,       \* outcome of that flush: "none" (the latest step was no
                \* flush), "running", "empty", "ok", "add", "commit", "push"
  done,         \* the done channel is closed
  \* history variables, read by the properties only
  seen,         \* paths of the relevant events received since the last flush
  batchFirst,   \* time the first relevant event of the batch was received
  batchLast,    \* time the last relevant event of the batch was received
  tight,        \* every relevant event of the batch but the first was
                \* received less than interval after the one before it
  flushed,      \* the flush of the loop's latest step: Nil or a record, see
                \* PerformCommit
  \* validator.go, ValidateASPFiles on one file
  text,         \* the file's content: its words, one space between two
  validated,    \* ValidateASPFiles has returned
  errors,       \* the diagnostics it returned
  \* gitAddCommitPush's commit message
  batch,        \* a set of paths that is flushed more than once
  fileLists     \* the fileList part of the message of each of these flushes

\* the variables of the loop, of the validator and of the commit message
loopVars == << interval, maxWait, now, events, errC, sig, changed,
               commitTimer, commitC, maxTimer, pc, files, reason, calls,
               result, done, seen, batchFirst, batchLast, tight, flushed >>
validatorVars == << text, validated, errors >>
messageVars == << batch, fileLists >>

vars == << loopVars, validatorVars, messageVars >>


(* ----------------------- pure helpers of main.go ---------------------- *)
\* strings.ToLower on the extensions that occur in Paths
ToLower(ext) == IF ext = ".ASP" THEN ".asp" ELSE ext

\* state.extensions: parseExtensions of the default -ext flag ".asp"
extensions == {".asp"}

\* matchesExtension(name, extensions)
matchesExtension(name, exts) == ToLower(name.ext) \in exts

\* mutant: the mask also holds fsnotify.Remove
HasAnyOp(op) == op \cap {"Write", "Create", "Rename", "Remove"} # {}

\* the mask test of handleEvent: Op & (Write|Create|Rename) != 0
HasChangeOp(op) == op \cap {"Write", "Create", "Rename"} # {}

\* handleEvent's first test: a Create event for a path that is a directory
IsNewDirectory(e) == "Create" \in e.op /\ e.name.isDir

\* t.Stop(): the runtime drops the timer; the call returns t.active.  The
\* deadline of a timer that is not active is never read and is kept at 0.
TimerStop(t) == [t EXCEPT !.active = FALSE, !.when = 0]

\* mutant: the stale value is left in commitTimer.C
DrainSkipped(t, c) == c

\* scheduleCommit, when commitTimer.Stop() returned false: the non-blocking
\* receive that empties commitTimer.C.  c is the channel, t the timer
\* before Stop
DrainIfStopped(t, c) == IF ~t.active THEN FALSE ELSE c

\* mutant: the test is written for the length before the insertion
IsFirstChangeBeforeInsert(ch) == Cardinality(ch) = 0

\* scheduleCommit: isFirstChange := len(state.changed) == 1
IsFirstChange(ch) == Cardinality(ch) = 1

\* mutant: max-wait counts as enabled when it is not negative
MaxWaitNotNegative(mw) == mw >= 0

\* scheduleCommit: maxWait > 0
MaxWaitEnabled(mw) == mw > 0

\* mutant: files := make([]string, len(state.changed)) followed by append,
\* which doubles the length of the slice
FilesOfPreallocated(ch) ==
  LET fs == { f \in [1..Cardinality(ch) -> ch] :
                \A i, j \in DOMAIN f : f[i] = f[j] => i = j }
  IN  { f \o f : f \in fs }

\* performCommit: the slices that ranging over the map state.changed can
\* build (Go's map iteration order is unspecified)
FilesOf(ch) ==
  { f \in [1..Cardinality(ch) -> ch] : \A i, j \in DOMAIN f : f[i] = f[j] => i = j }

\* mutant: the map is not replaced
KeepChanged(ch) == ch

\* performCommit: state.changed = make(map[string]struct{})
EmptyChanged(ch) == {}

\* mutant: the early return for an empty batch is missing
NeverEmptyBatch(fs) == FALSE

\* performCommit: len(files) == 0
IsEmptyBatch(fs) == Len(fs) = 0

\* mutant: the max-wait timer is stopped but maxTimer and maxTimerCh keep
\* pointing to it
StopMaxTimerOnly(mt) ==
  IF mt # Nil THEN [mt EXCEPT !.active = FALSE, !.when = 0] ELSE mt

\* mutant: the max-wait timer is left as it is
KeepMaxTimer(mt) == mt

\* performCommit: "Limpiar max timer"
ClearMaxTimer(mt) == IF mt # Nil THEN Nil ELSE mt

Range(f) == { f[i] : i \in DOMAIN f }

ExitReason == "flush on exit"
DebounceReason == "debounce completado"
MaxWaitReason == "max-wait alcanzado"

(* ------------------------------- Init --------------------------------- *)
\* the loop goroutine is about to start
LoopStart ==
  /\ now = 0
  /\ events = << >>
  /\ errC = FALSE
  /\ sig = FALSE
  /\ changed = {}
  /\ commitTimer = [active |-> FALSE, when |-> 0]
  /\ commitC = FALSE
  /\ maxTimer = Nil
  /\ pc = "select"
  /\ files = << >>
  /\ reason = ""
  /\ calls = << >>
  /\ result = "none"
  /\ done = FALSE
  /\ seen = {}
  /\ batchFirst = -1
  /\ batchLast = -1
  /\ tight = TRUE
  /\ flushed = Nil

\* nothing is being validated
ValidatorIdle == text = << >> /\ validated = FALSE /\ errors = << >>

\* no commit message is being composed
MessageIdle == batch = {} /\ fileLists = << >>

LoopInit ==
  /\ interval \in IntervalChoices
  /\ maxWait \in MaxWaitChoices
  /\ LoopStart

Init == LoopInit /\ ValidatorIdle /\ MessageIdle

\* Init with the negative value of -max-wait as well
InitAnyMaxWait ==
  /\ interval \in IntervalChoices
  /\ maxWait \in AnyMaxWaitChoices
  /\ LoopStart
  /\ ValidatorIdle
  /\ MessageIdle

(* ------------------------- the environment ---------------------------- *)
\* what the watcher has delivered and the loop has not yet received
Undelivered == Len(events) + (IF errC THEN 1 ELSE 0)

\* the watcher delivers an event
Arrive ==
  /\ Undelivered < MaxQueue
  /\ \E e \in Event : events' = Append(events, e)
  /\ UNCHANGED << validatorVars, messageVars >>
  /\ UNCHANGED << interval, maxWait, errC, now, sig, changed, commitTimer, commitC,
                  maxTimer, pc, files, reason, calls, result, done,
                  seen, batchFirst, batchLast, tight,
                  flushed >>

\* the watcher delivers an error
ArriveError ==
  /\ ~errC
  /\ Undelivered < MaxQueue
  /\ pc # "exited"
  /\ errC' = TRUE
  /\ UNCHANGED << validatorVars, messageVars >>
  /\ UNCHANGED << interval, maxWait, now, events, sig, changed, commitTimer,
                  commitC, maxTimer, pc, files, reason, calls, result, done,
                  seen, batchFirst, batchLast, tight,
                  flushed >>

\* SIGINT or SIGTERM is delivered to the sig channel
Signal ==
  /\ ~sig
  /\ pc # "exited"
  /\ sig' = TRUE
  /\ UNCHANGED << validatorVars, messageVars >>
  /\ UNCHANGED << interval, maxWait, errC, now, events, changed, commitTimer,
                  commitC, maxTimer, pc, files, reason, calls, result, done,
                  seen, batchFirst, batchLast, tight,
                  flushed >>

\* a message the select statement can receive
CommitReady == commitC
MaxReady == maxTimer # Nil /\ maxTimer.c
Ready == events # << >> \/ errC \/ CommitReady \/ MaxReady \/ sig

\* the runtime delivers an active timer's value when its deadline is reached
Expire(t, time) == t.active /\ t.when <= time

\* One second passes.  A loop that waits in select with a message ready
\* receives it before the clock advances; a running git process may take
\* any time.
Tick ==
  /\ now < MaxTime
  /\ pc = "select" => ~Ready
  /\ now' = now + 1
  /\ commitTimer' = IF Expire(commitTimer, now')
                    THEN [commitTimer EXCEPT !.active = FALSE, !.when = 0]
                    ELSE commitTimer
  /\ commitC' = (commitC \/ Expire(commitTimer, now'))
  /\ maxTimer' = IF maxTimer # Nil /\ Expire(maxTimer, now')
                 THEN [maxTimer EXCEPT !.active = FALSE, !.when = 0, !.c = TRUE]
                 ELSE maxTimer
  /\ UNCHANGED << validatorVars, messageVars >>
  /\ UNCHANGED << interval, maxWait, errC, events, sig, changed, pc, files, reason,
                  calls, result, done, seen, batchFirst, batchLast, tight,
                  flushed >>


(* --------------------------- the event loop --------------------------- *)
\* mutant: the sig case does not return
AfterFlushNoReturn(r) == "select"

\* where the loop goes when a flush with reason r is over: the sig case
\* closes done and returns, the timer cases go round the loop
AfterFlush(r) == IF r = ExitReason THEN "exited" ELSE "select"

\* performCommit(state, &maxTimer, &maxTimerCh, r) up to the call of
\* gitAddCommitPush; mt is the max-wait timer as the caller left it
PerformCommit(r, mt) ==
  /\ \E fs \in FilesOf(changed) :
       /\ IF IsEmptyBatch(fs)
          THEN /\ result' = "empty"
               /\ files' = << >>
               /\ pc' = AfterFlush(r)
               /\ done' = (done \/ r = ExitReason)
          ELSE /\ result' = "running"
               /\ files' = fs
               /\ pc' = "add"
               /\ done' = done
       /\ flushed' = [reason |-> r, files |-> fs, at |-> now, seen |-> seen,
                      first |-> batchFirst, last |-> batchLast,
                      tight |-> tight, maxC |-> MaxReady]
  /\ changed' = EmptyChanged(changed)
  /\ maxTimer' = ClearMaxTimer(mt)
  /\ reason' = r
  /\ calls' = << >>
  /\ seen' = {}
  /\ batchFirst' = -1
  /\ batchLast' = -1
  /\ tight' = TRUE

\* scheduleCommit(), called with the event's path already in state.changed
\* (ch is state.changed after the insertion)
ScheduleCommit(ch) ==
  /\ commitC' = DrainIfStopped(commitTimer, commitC)
  /\ commitTimer' = [active |-> TRUE, when |-> now + interval]
  /\ IF MaxWaitEnabled(maxWait) /\ IsFirstChange(ch)
     THEN maxTimer' = [active |-> TRUE, when |-> now + maxWait, c |-> FALSE]
     ELSE maxTimer' = maxTimer

\* what the specification calls a relevant event: a create, write or rename
\* event for a path whose lowercase extension is in the extension set, the
\* creation of a directory excepted
Relevant(e) ==
  /\ e.op \cap {"Create", "Write", "Rename"} # {}
  /\ ToLower(e.name.ext) \in extensions
  /\ ~("Create" \in e.op /\ e.name.isDir)

\* handleEvent(event, watcher, state, scheduleCommit)
HandleEvent(e) ==
  IF IsNewDirectory(e)
  THEN UNCHANGED << changed, commitTimer, commitC, maxTimer >>
  ELSE IF matchesExtension(e.name, extensions) /\ HasChangeOp(e.op)
       THEN /\ changed' = changed \cup {e.name}
            /\ ScheduleCommit(changed')
       ELSE UNCHANGED << changed, commitTimer, commitC, maxTimer >>

\* case event, ok := <-watcher.Events
RecvEvent ==
  /\ pc = "select"
  /\ events # << >>
  /\ events' = Tail(events)
  /\ HandleEvent(Head(events))
  /\ IF Relevant(Head(events))
     THEN /\ seen' = seen \cup {Head(events).name}
          /\ batchFirst' = IF seen = {} THEN now ELSE batchFirst
          /\ batchLast' = now
          /\ tight' = (seen = {} \/ (tight /\ now < batchLast + interval))
     ELSE UNCHANGED << seen, batchFirst, batchLast, tight >>
  /\ calls' = << >>
  /\ result' = "none"
  /\ flushed' = Nil
  /\ UNCHANGED << validatorVars, messageVars >>
  /\ UNCHANGED << interval, maxWait, errC, now, sig, pc, files, reason, done >>

\* case err := <-watcher.Errors: the error is logged
RecvError ==
  /\ pc = "select"
  /\ errC
  /\ errC' = FALSE
  /\ UNCHANGED << validatorVars, messageVars >>
  /\ UNCHANGED << interval, maxWait, now, events, sig, changed, commitTimer,
                  commitC, maxTimer, pc, files, reason, calls, result, done,
                  seen, batchFirst, batchLast, tight,
                  flushed >>

\* case <-commitTimer.C
RecvCommitTimer ==
  /\ pc = "select"
  /\ commitC
  /\ commitC' = FALSE
  /\ PerformCommit(DebounceReason, maxTimer)
  /\ UNCHANGED << validatorVars, messageVars >>
  /\ UNCHANGED << interval, maxWait, errC, now, events, sig, commitTimer >>

\* case <-maxTimerCh
RecvMaxTimer ==
  /\ pc = "select"
  /\ maxTimer # Nil
  /\ maxTimer.c
  /\ PerformCommit(MaxWaitReason, Nil)
  /\ UNCHANGED << validatorVars, messageVars >>
  /\ UNCHANGED << interval, maxWait, errC, now, events, sig, commitTimer, commitC >>

\* case s := <-sig
RecvSignal ==
  /\ pc = "select"
  /\ sig
  /\ sig' = FALSE
  /\ commitTimer' = TimerStop(commitTimer)
  /\ PerformCommit(ExitReason, IF maxTimer # Nil THEN TimerStop(maxTimer) ELSE maxTimer)
  /\ UNCHANGED << validatorVars, messageVars >>
  /\ UNCHANGED << interval, maxWait, errC, now, events, commitC >>


(* ------------------------- gitAddCommitPush --------------------------- *)
\* What a git process can report.  "ok": exit status 0; "fail": non-zero
\* exit status; for status, "clean" is exit status 0 with blank output and
\* "dirty" exit status 0 with some output; for commit, "nochanges" is a
\* non-zero exit status with "nothing to commit" in the output.
AddOutcomes == {"ok", "fail"}
StatusOutcomes == {"clean", "dirty", "fail"}
CommitOutcomes == {"ok", "nochanges", "fail"}
PushOutcomes == {"ok", "fail"}

\* mutant: the error of git add is ignored
AddErrorIgnored(out) == FALSE

\* err != nil after runGit(repo, "add", "--", files...)
AddFailed(out) == out = "fail"

\* mutant: the blank status output is not recognised
StatusNeverClean(out) == FALSE

\* err == nil && strings.TrimSpace(out) == "" after runGit(repo, "status", "--short")
StatusIsClean(out) == out = "clean"

\* err != nil after runGit(repo, "commit", "-m", msg)
CommitFailed(out) == out # "ok"

\* mutant: no output of git commit is taken to mean "nothing to commit"
NeverNoChanges(out) == FALSE

\* isNoChanges(out)
isNoChanges(out) == out = "nochanges"

\* err != nil after runGit(repo, "push")
PushFailed(out) == out = "fail"

\* mutant: an error of gitAddCommitPush ends the loop (log.Fatalf for
\* log.Printf)
ReturnFatalOnError(res) ==
  /\ result' = res
  /\ pc' = IF res = "ok" THEN AfterFlush(reason) ELSE "exited"
  /\ done' = (done \/ reason = ExitReason)
  /\ files' = << >>

\* gitAddCommitPush returns res ("ok" for nil, else the failing stage) and
\* performCommit logs it and returns to its caller
Return(res) ==
  /\ result' = res
  /\ pc' = AfterFlush(reason)
  /\ done' = (done \/ reason = ExitReason)
  /\ files' = << >>

\* mutant: the rest of the flush is left to run on its own and the loop
\* goes back to its select
ContinueDetached(next) ==
  /\ pc' = "select"
  /\ UNCHANGED << result, done, files >>

\* the next git process of the flush is started
Continue(next) ==
  /\ pc' = next
  /\ UNCHANGED << result, done, files >>

\* runGit(repo, "add", "--", files...)
GitAdd ==
  /\ pc = "add"
  /\ \E out \in AddOutcomes :
       /\ calls' = Append(calls, [cmd |-> "add", out |-> out])
       /\ IF AddFailed(out) THEN Return("add") ELSE Continue("status")
  /\ UNCHANGED << validatorVars, messageVars >>
  /\ UNCHANGED << interval, maxWait, errC, now, events, sig, changed, commitTimer,
                  commitC, maxTimer, reason, seen, batchFirst, batchLast, tight,
                  flushed >>

\* runGit(repo, "status", "--short")
GitStatus ==
  /\ pc = "status"
  /\ \E out \in StatusOutcomes :
       /\ calls' = Append(calls, [cmd |-> "status", out |-> out])
       /\ IF StatusIsClean(out) THEN Return("ok") ELSE Continue("commit")
  /\ UNCHANGED << validatorVars, messageVars >>
  /\ UNCHANGED << interval, maxWait, errC, now, events, sig, changed, commitTimer,
                  commitC, maxTimer, reason, seen, batchFirst, batchLast, tight,
                  flushed >>

\* runGit(repo, "commit", "-m", msg)
GitCommit ==
  /\ pc = "commit"
  /\ \E out \in CommitOutcomes :
       /\ calls' = Append(calls, [cmd |-> "commit", out |-> out])
       /\ IF CommitFailed(out)
          THEN IF ~isNoChanges(out) THEN Return("commit") ELSE Return("ok")
          ELSE Continue("push")
  /\ UNCHANGED << validatorVars, messageVars >>
  /\ UNCHANGED << interval, maxWait, errC, now, events, sig, changed, commitTimer,
                  commitC, maxTimer, reason, seen, batchFirst, batchLast, tight,
                  flushed >>

\* runGit(repo, "push")
GitPush ==
  /\ pc = "push"
  /\ \E out \in PushOutcomes :
       /\ calls' = Append(calls, [cmd |-> "push", out |-> out])
       /\ IF PushFailed(out) THEN Return("push") ELSE Return("ok")
  /\ UNCHANGED << validatorVars, messageVars >>
  /\ UNCHANGED << interval, maxWait, errC, now, events, sig, changed, commitTimer,
                  commitC, maxTimer, reason, seen, batchFirst, batchLast, tight,
                  flushed >>

(* --------------------------- specification ---------------------------- *)
Next ==
  \/ Arrive
  \/ ArriveError
  \/ Signal
  \/ Tick
  \/ RecvEvent
  \/ RecvError
  \/ RecvCommitTimer
  \/ RecvMaxTimer
  \/ RecvSignal
  \/ GitAdd
  \/ GitStatus
  \/ GitCommit
  \/ GitPush

Spec == Init /\ [][Next]_vars

SpecAnyMaxWait == InitAnyMaxWait /\ [][Next]_vars

\* The adapter closes watcher.Events or watcher.Errors (fsnotify closes
\* both when its reader stops) and the loop receives from the closed
\* channel: "if !ok { return }".  A closed channel is always ready.
RecvClosed ==
  /\ pc = "select"
  /\ pc' = "returned"
  /\ UNCHANGED << validatorVars, messageVars >>
  /\ UNCHANGED << interval, maxWait, now, events, errC, sig, changed,
                  commitTimer, commitC, maxTimer, files, reason, calls,
                  result, done, seen, batchFirst, batchLast, tight,
                  flushed >>

\* the program with a watcher that may close its channels
NextWatcherClosed ==
  \/ Next
  \/ RecvClosed

SpecWatcherClosed == Init /\ [][NextWatcherClosed]_vars


(* --------------------- validator.go: ValidateASPFiles ----------------- *)
\* The words a text is made of.  A text is its words with one space between
\* two of them.
Words == {"If", "End", "For", "Next", "x"}

Texts == UNION { [1..n -> Words] : n \in 0..MaxWords }

\* the regular expressions are compiled with (?i): a word is compared in
\* lower case
LowerWord(w) ==
  CASE w = "If" -> "if"
    [] w = "End" -> "end"
    [] w = "For" -> "for"
    [] w = "Next" -> "next"
    [] OTHER -> w

\* len(re.FindAllString(text, -1)) for \bw\b: the words of t equal to w
CountWord(t, w) == Cardinality({ i \in DOMAIN t : LowerWord(t[i]) = w })

\* the same for \bw1 w2\b: the places of t where w1 is followed by w2
CountPair(t, w1, w2) ==
  Cardinality({ i \in DOMAIN t : /\ i < Len(t)
                                 /\ LowerWord(t[i]) = w1
                                 /\ LowerWord(t[i + 1]) = w2 })

ifCount(t) == CountWord(t, "if")
endifCount(t) == CountPair(t, "end", "if")
forCount(t) == CountWord(t, "for")
nextCount(t) == CountWord(t, "next")

\* the errors ValidateASPFiles appends for the block keywords of one .asp
\* file with content t
BlockErrors(t) ==
  (IF ifCount(t) # endifCount(t)
   THEN << [kind |-> "IF", open |-> ifCount(t), close |-> endifCount(t)] >>
   ELSE << >>)
  \o
  (IF forCount(t) # nextCount(t)
   THEN << [kind |-> "FOR", open |-> forCount(t), close |-> nextCount(t)] >>
   ELSE << >>)

ValidatorInit ==
  /\ LoopInit
  /\ MessageIdle
  /\ text \in Texts
  /\ validated = FALSE
  /\ errors = << >>

\* ValidateASPFiles([]string{file}) runs and returns
ValidateASPFiles ==
  /\ ~validated
  /\ validated' = TRUE
  /\ errors' = BlockErrors(text)
  /\ UNCHANGED << loopVars, messageVars, text >>

ValidatorNext == ValidateASPFiles

ValidatorSpec == ValidatorInit /\ [][ValidatorNext]_vars


(* ---------------- gitAddCommitPush: the commit message ----------------- *)
\* the paths a batch is taken from
RepoFiles ==
  { [dir |-> "", base |-> "a", ext |-> ".asp"],
    [dir |-> "", base |-> "b", ext |-> ".asp"],
    [dir |-> "", base |-> "c", ext |-> ".asp"],
    [dir |-> "inc", base |-> "a", ext |-> ".asp"],
    [dir |-> "inc", base |-> "d", ext |-> ".asp"] }

\* filepath.Base(f)
Base(f) == [base |-> f.base, ext |-> f.ext]

\* len(files) <= 3
MaxListed == 3

\* fileList for the slice fs: the base names in the order of the slice,
\* joined with ", ", or "<n> archivos".  The joined string is modelled by
\* the sequence of the names, which it determines and is determined by.
FileList(fs) ==
  IF Len(fs) <= MaxListed
  THEN [joined |-> TRUE, names |-> [i \in DOMAIN fs |-> Base(fs[i])],
        count |-> 0]
  ELSE [joined |-> FALSE, names |-> << >>, count |-> Len(fs)]

MessageInit ==
  /\ LoopInit
  /\ ValidatorIdle
  /\ batch \in (SUBSET RepoFiles) \ {{}}
  /\ fileLists = << >>

\* the paths of batch are in state.changed; performCommit drains the map
\* into a slice and gitAddCommitPush composes the message from the slice
ComposeMessage ==
  /\ Len(fileLists) < MaxFlushes
  /\ \E fs \in FilesOf(batch) : fileLists' = Append(fileLists, FileList(fs))
  /\ UNCHANGED << loopVars, validatorVars, batch >>

MessageNext == ComposeMessage

MessageSpec == MessageInit /\ [][MessageNext]_vars


(* ------------------------------ properties ---------------------------- *)
GitSteps == {"add", "status", "commit", "push"}

\* a flush has been performed and no relevant event was received since
IdleAfterFlush == reason # "" /\ seen = {}

\* no fire of the debounce timer can be received any more: the runtime does
\* not hold the timer, and a value left in its channel is one the returning
\* shutdown path never reads
DebounceDisarmed ==
  ~commitTimer.active /\ (commitC => reason = ExitReason)

\* C1: with maxWait > 0, a batch whose events keep arriving at gaps shorter
\* than interval is flushed no later than maxWait after its first event:
\* while such a batch is pending, the clock is at most maxWait past the
\* batch's first event.
C1_FlushWithinMaxWait ==
  (maxWait > 0 /\ seen # {} /\ tight) => now <= batchFirst + maxWait

\* C2: a debounce flush of a non-empty batch happens exactly interval after
\* the last event of the batch, never earlier, hands over exactly the paths
\* of the events of the batch, and a pending batch is never left waiting
\* longer than interval after its last event.
C2_DebounceFlush ==
  /\ (flushed # Nil /\ flushed.reason = DebounceReason /\ flushed.files # << >>)
        => /\ flushed.at = flushed.last + interval
           /\ Range(flushed.files) = flushed.seen
  /\ seen # {} => now <= batchLast + interval

C2_Witness ==
  /\ flushed # Nil
  /\ flushed.reason = DebounceReason
  /\ Cardinality(flushed.seen) = 2
  /\ flushed.last = flushed.first + 1
  /\ flushed.tight
  /\ flushed.at = flushed.last + interval
  /\ (maxWait <= 0 \/ flushed.at < flushed.first + maxWait)
  /\ pc = "add"

\* C3: no change is lost or duplicated: the ChangeSet holds exactly the paths
\* of the relevant events received since the last flush, a flush hands over
\* exactly those paths and empties the set, and while the git processes of
\* a flush run, the batch stays as drained and the ChangeSet stays empty,
\* whatever events arrive meanwhile.
C3_NoLossNoDuplicate ==
  /\ changed = seen
  /\ flushed # Nil => Range(flushed.files) = flushed.seen
  /\ pc \in GitSteps => /\ flushed # Nil
                        /\ files = flushed.files
                        /\ changed = {}

C3_Witness ==
  /\ pc = "push"
  /\ events # << >>
  /\ Relevant(Head(events))
  /\ Head(events).name \in Range(files)
  /\ now > flushed.at

\* C4: the shutdown flush finds both timers stopped and hands over exactly
\* the pending set; done is closed only when that flush is over, and once
\* the loop has returned it receives nothing and flushes nothing.
C4_ShutdownState ==
  /\ (flushed # Nil /\ flushed.reason = ExitReason)
        => /\ ~commitTimer.active
           /\ maxTimer = Nil
           /\ Range(flushed.files) = flushed.seen
           /\ changed = {}
  /\ done => /\ pc = "exited"
             /\ flushed # Nil
             /\ flushed.reason = ExitReason
             /\ result \in {"empty", "ok", "add", "commit", "push"}
  /\ pc = "exited" => done

C4_ShutdownStep ==
  /\ pc = "exited" => UNCHANGED << changed, commitTimer, commitC, maxTimer,
                                   pc, files, reason, calls, result, done,
                                   events, flushed >>
     \/ (events' # events /\ Len(events') = Len(events) + 1
         /\ UNCHANGED << changed, pc, files, reason, calls, result, done, flushed >>)
     \/ (now' # now /\ UNCHANGED << changed, pc, files, reason, calls, result,
                                    done, flushed, events >>)
  /\ reason = ExitReason => flushed' = flushed

C4_Shutdown == [] C4_ShutdownState /\ [][C4_ShutdownStep]_vars

C4_Witness ==
  /\ done
  /\ flushed.files # << >>
  /\ flushed.at < flushed.last + interval
  /\ result = "push"
  /\ events # << >>


\* C5 as stated: after any flush, until the next relevant event, the pending
\* set is empty and both the debounce timer and the max-wait timer are
\* disarmed.
C5_BothTimersDisarmed ==
  IdleAfterFlush => /\ changed = {}
                    /\ maxTimer = Nil
                    /\ DebounceDisarmed

\* C5 as amended: after any flush, until the next relevant event, the pending
\* set is empty and the max-wait timer is disarmed; the debounce timer is
\* disarmed too unless the flush was a max-wait flush, which leaves it armed.
C5_DisarmedAfterFlush ==
  IdleAfterFlush => /\ changed = {}
                    /\ maxTimer = Nil
                    /\ reason # MaxWaitReason => DebounceDisarmed

C5_Witness ==
  /\ IdleAfterFlush
  /\ reason = MaxWaitReason
  /\ result = "ok"
  /\ pc = "select"
  /\ commitTimer.active

\* C6: the max-wait timer of a batch is armed once, by the first event of the
\* batch, and no later event of the batch restarts it: while it runs, its
\* deadline is the time of the batch's first event plus maxWait.
C6_MaxTimerArmedOnce ==
  (maxTimer # Nil /\ maxTimer.active) => maxTimer.when = batchFirst + maxWait

\* C7: a flush of an empty batch runs no git process and leaves the
\* ChangeSet empty.
C7_EmptyFlushNoCalls ==
  (flushed # Nil /\ flushed.files = << >>)
     => /\ calls = << >>
        /\ result = "empty"
        /\ changed = {}
        /\ pc \in {"select", "exited"}

C7_Witness ==
  /\ flushed # Nil
  /\ flushed.files = << >>
  /\ flushed.reason = DebounceReason
  /\ pc = "select"

\* C8: the flushed batch holds each path once: its length is the number of
\* distinct paths of the relevant events received since the previous flush,
\* however many events there were for one path.
C8_IdempotentInsert ==
  flushed # Nil =>
     /\ Len(flushed.files) = Cardinality(flushed.seen)
     /\ \A i, j \in DOMAIN flushed.files :
           flushed.files[i] = flushed.files[j] => i = j

C8_Witness ==
  /\ flushed # Nil
  /\ Len(flushed.files) = 1
  /\ flushed.last > flushed.first
  /\ flushed.seen = {Path("a")}

\* C9: when git add succeeded and git status reported no differences, the
\* flush is over: no commit and no push was run and no error is returned.
C9_CleanStatusEndsFlush ==
  (Len(calls) >= 2 /\ calls[1] = [cmd |-> "add", out |-> "ok"]
                   /\ calls[2] = [cmd |-> "status", out |-> "clean"])
     => /\ Len(calls) = 2
        /\ result = "ok"
        /\ pc \in {"select", "exited"}

C9_Witness ==
  /\ Len(calls) = 2
  /\ calls[2] = [cmd |-> "status", out |-> "clean"]
  /\ Len(flushed.files) = 2
  /\ pc = "select"

\* C10: when git add failed, the flush is over with the error of the add
\* stage: no other git process was run, and the paths of the batch are in
\* the ChangeSet no more; until an event is received, nothing enters the
\* ChangeSet and a further flush hands over nothing.
C10_AddFailedState ==
  (Len(calls) >= 1 /\ calls[1] = [cmd |-> "add", out |-> "fail"])
     => /\ Len(calls) = 1
        /\ result = "add"
        /\ changed = {}
        /\ files = << >>
        /\ pc \in {"select", "exited"}

C10_AddFailedStep ==
  result = "add" =>
     /\ changed' # {} => (events # << >> /\ changed' = {Head(events).name}
                          /\ Relevant(Head(events)))
     /\ (flushed' # flushed /\ flushed' # Nil) => flushed'.files = << >>

C10_AddFailureAborts == [] C10_AddFailedState /\ [][C10_AddFailedStep]_vars

C10_Witness ==
  /\ result = "add"
  /\ reason = MaxWaitReason
  /\ Len(flushed.files) = 2
  /\ commitC
  /\ pc = "select"


\* the flush of the loop's latest step ended with an error of git
Failed == result \in {"add", "commit", "push"}

\* the git subcommands in the order gitAddCommitPush runs them
CallOrder == << "add", "status", "commit", "push" >>

\* C11 as stated: after a flush in which git add, commit or push failed the
\* loop is back in Idle: ChangeSet empty and both timers disarmed.
C11_IdleAfterFailure ==
  (Failed /\ pc = "select") => /\ changed = {}
                               /\ maxTimer = Nil
                               /\ DebounceDisarmed

\* C11 as amended: a failed flush leaves the loop where a successful flush
\* with the same trigger leaves it: at its select (or returning, for the
\* shutdown flush), with the ChangeSet empty, the max-wait timer disarmed
\* and the debounce timer disarmed unless the trigger was max-wait; the
\* failing git process is the last one the flush ran, so nothing follows a
\* failed push.
C11_FailedState ==
  Failed => /\ pc = AfterFlush(reason)
            /\ done = (reason = ExitReason)
            /\ changed = {}
            /\ maxTimer = Nil
            /\ reason # MaxWaitReason => DebounceDisarmed
            /\ calls # << >>
            /\ calls[Len(calls)] = [cmd |-> result, out |-> "fail"]
            /\ \A i \in DOMAIN calls : calls[i].cmd = CallOrder[i]

\* the step that ends a flush does the same to the scheduling state whatever
\* git reported
C11_ReturnStep ==
  (pc \in GitSteps /\ pc' \notin GitSteps)
     => /\ pc' = AfterFlush(reason)
        /\ UNCHANGED << changed, commitTimer, commitC, maxTimer, events, sig >>

C11_FailureNotFatal == [] C11_FailedState /\ [][C11_ReturnStep]_vars

C11_Witness ==
  /\ result = "push"
  /\ reason = MaxWaitReason
  /\ pc = "select"
  /\ commitTimer.active
  /\ events # << >>
  /\ Relevant(Head(events))

\* C12: one flush at a time, run to completion: git runs exactly while the
\* loop is inside a flush, a flush starts only from the select with no flush
\* running, and while a flush runs the loop takes no message: events,
\* signal and timer values stay where they are and the ChangeSet is not
\* touched; the git processes of the flush are appended one at a time.
C12_FlushState == (pc \in GitSteps) <=> (result = "running")

C12_FlushStep ==
  /\ (flushed' # flushed /\ flushed' # Nil)
        => (pc = "select" /\ result # "running")
  /\ pc \in GitSteps
        => /\ flushed' = flushed
           /\ changed' = changed
           /\ (events' = events \/ \E e \in Event : events' = Append(events, e))
           /\ sig => sig'
           /\ commitC => commitC'
           /\ (calls' = calls
               \/ (Len(calls') = Len(calls) + 1
                   /\ \A i \in DOMAIN calls : calls'[i] = calls[i]))

C12_OneFlushAtATime == [] C12_FlushState /\ [][C12_FlushStep]_vars

C12_Witness ==
  /\ pc = "commit"
  /\ events # << >>
  /\ sig
  /\ commitC

\* C13: with maxWait zero or negative no max-wait timer exists in any state
\* and no flush has the max-wait reason.
C13_MaxWaitDisabled ==
  maxWait <= 0 => /\ maxTimer = Nil
                  /\ reason # MaxWaitReason
                  /\ flushed # Nil => flushed.reason \in {DebounceReason, ExitReason}

C13_Witness ==
  /\ maxWait < 0
  /\ flushed # Nil
  /\ flushed.reason = DebounceReason
  /\ flushed.files # << >>
  /\ flushed.at > flushed.first + 3


\* the loop's step receives the event at the head of watcher.Events
ReceivesEvent == pc = "select" /\ events # << >> /\ events' = Tail(events)

\* the loop's step receives the error held by watcher.Errors
ReceivesError == pc = "select" /\ errC /\ ~errC'

\* the kinds of event the scheduler is to ignore
RemoveOnly(e) == e.op = {"Remove"}
NonMatching(e) == ToLower(e.name.ext) \notin {".asp"}
DirectoryCreated(e) == "Create" \in e.op /\ e.name.isDir

Ignored(e) == RemoveOnly(e) \/ NonMatching(e) \/ DirectoryCreated(e)

\* C14: receiving a remove-only event, an event for a path with a
\* non-matching extension, a directory-created event or a watcher error
\* leaves the ChangeSet and both timers as they are and starts no flush;
\* receiving any other event (create, write or rename of a matching path)
\* adds its path to the ChangeSet and re-arms the debounce timer.
C14_IgnoredStep ==
  /\ (ReceivesError \/ (ReceivesEvent /\ Ignored(Head(events))))
        => /\ UNCHANGED << changed, commitTimer, commitC, maxTimer >>
           /\ UNCHANGED << pc, files, reason, done >>
           /\ flushed' \in {flushed, Nil}
           /\ calls' \in {calls, << >>}
  /\ (ReceivesEvent /\ ~Ignored(Head(events)))
        => /\ changed' = changed \cup {Head(events).name}
           /\ commitTimer' = [active |-> TRUE, when |-> now + interval]
           /\ pc' = pc

C14_OnlyRelevantEvents == [][C14_IgnoredStep]_vars

\* since the latest flush the loop has received an event, and every event
\* it received was an ignored one: the scheduler is still idle
C14_Witness ==
  /\ reason = DebounceReason
  /\ flushed = Nil
  /\ seen = {}
  /\ changed = {}
  /\ ~commitTimer.active /\ ~commitC
  /\ maxTimer = Nil
  /\ maxWait > 0
  /\ pc = "select"


\* C17: the git processes of one flush are add, status, commit, push in
\* that order, each at most once; commit runs only after add succeeded and
\* push only after commit succeeded; a commit that fails with "nothing to
\* commit" output ends the flush without error and without push.
C17_CallOrder ==
  /\ Len(calls) <= Len(CallOrder)
  /\ \A i \in DOMAIN calls : calls[i].cmd = CallOrder[i]
  /\ Len(calls) >= 2 => calls[1].out = "ok"
  /\ Len(calls) >= 3 => calls[2].out # "clean"
  /\ Len(calls) >= 4 => calls[3].out = "ok"
  /\ (Len(calls) >= 3 /\ calls[3].out = "nochanges")
        => /\ Len(calls) = 3
           /\ result = "ok"
           /\ pc = AfterFlush(reason)

C17_Witness ==
  /\ Len(calls) = 3
  /\ calls[3].out = "nochanges"
  /\ calls[2].out = "fail"
  /\ result = "ok"
  /\ pc = "select"


\* the loop's step starts a flush
StartsFlush == flushed' # flushed /\ flushed' # Nil

\* C18: a max-wait timer never outlives its batch: from a flush to the next
\* relevant event no max-wait timer or channel exists, so no max-wait fire
\* can be received, also when the fire was pending at the time of the flush;
\* every max-wait flush is for a non-empty batch whose first event is at
\* least maxWait old.
C18_NoTimerWithoutBatch == seen = {} => maxTimer = Nil

C18_MaxWaitFlushStep ==
  (StartsFlush /\ flushed'.reason = MaxWaitReason)
     => /\ flushed'.seen # {}
        /\ flushed'.maxC
        /\ flushed'.first + maxWait <= now

C18_TimerDiesWithBatch ==
  [] C18_NoTimerWithoutBatch /\ [][C18_MaxWaitFlushStep]_vars

\* a debounce flush has run while the max-wait fire of its batch was
\* waiting in maxTimerCh
C18_Witness ==
  /\ flushed # Nil
  /\ flushed.reason = DebounceReason
  /\ flushed.seen # {}
  /\ flushed.maxC
  /\ maxTimer = Nil
  /\ pc = "select"
  /\ result = "ok"

\* C19: a non-empty ChangeSet has the debounce timer armed (or its fire
\* waiting in the channel) and, when maxWait > 0, the max-wait timer armed
\* (or its fire waiting); the max-wait timer exists only while the ChangeSet
\* is non-empty.
DebounceOutstanding == commitTimer.active \/ commitC
MaxWaitOutstanding == maxTimer # Nil /\ (maxTimer.active \/ maxTimer.c)

C19_TriggerOutstanding ==
  /\ changed # {} => /\ pc = "select"
                     /\ DebounceOutstanding
                     /\ maxWait > 0 => MaxWaitOutstanding
  /\ maxTimer # Nil => changed # {}

C19_Witness ==
  /\ pc = "select"
  /\ Cardinality(changed) = 2
  /\ commitTimer.active
  /\ maxWait > 0
  /\ maxTimer # Nil
  /\ maxTimer.c


\* the loop goroutine has terminated
LoopTerminated == pc \in {"exited", "returned"}

\* C20: whenever the loop goroutine has terminated, the final flush of the
\* pending set has been performed and done is closed, also when the watcher
\* has closed its channels.
C20_EndsOnlyByShutdown ==
  LoopTerminated => /\ done
                    /\ reason = ExitReason
                    /\ changed = {}


\* block openers and closers as the claim counts them: an If that is not
\* the second word of an End If opens a block, an End If closes one
Openers(t) ==
  Cardinality({ i \in DOMAIN t :
                  /\ LowerWord(t[i]) = "if"
                  /\ ~(i > 1 /\ LowerWord(t[i - 1]) = "end") })
Closers(t) == CountPair(t, "end", "if")

HasError(k) == \E i \in DOMAIN errors : errors[i].kind = k

\* C15: ValidateASPFiles reports an IF/END IF diagnostic exactly when the
\* number of If openers differs from the number of End If closers, and a
\* FOR/NEXT diagnostic exactly when the numbers of For and Next differ.
C15_BlockBalance ==
  validated => /\ HasError("IF") <=> (Openers(text) # Closers(text))
               /\ HasError("FOR") <=> (CountWord(text, "for") # CountWord(text, "next"))

\* C16: the file-list part of the commit message is a function of the set
\* of paths: every flush of the same set gives the same file list, the
\* base names of the paths for at most 3 paths and the number of paths for
\* 4 or more, whatever the order the paths were drained in.
C16_MessageDeterministic ==
  /\ \A i, j \in DOMAIN fileLists : fileLists[i] = fileLists[j]
  /\ \A i \in DOMAIN fileLists :
       IF Cardinality(batch) <= 3
       THEN /\ fileLists[i].joined
            /\ Len(fileLists[i].names) = Cardinality(batch)
            /\ Range(fileLists[i].names) = { Base(f) : f \in batch }
       ELSE /\ ~fileLists[i].joined
            /\ fileLists[i].count = Cardinality(batch)

=============================================================================
